---- MODULE Spec2Model ----
(***************************************************************************)
(* Model of the honeypot scam API: the decision pipeline of logic.py       *)
(* (scam scoring, entity extraction, persona state machine, reply          *)
(* synthesis, conversation store) and the POST handler of main.py.         *)
(*                                                                         *)
(* Messages are TLA+ strings; the regular expressions and keyword searches *)
(* of logic.py are evaluated character by character.  Scores are kept in   *)
(* hundredths (0.3 is 30): every sum the scorer can form is a multiple of  *)
(* 0.1, the double-precision sums compare with 0.4 exactly as the integer  *)
(* sums compare with 40, and round(x, 2) leaves each of them unchanged.    *)
(***************************************************************************)
EXTENDS Integers, Sequences, FiniteSets, TLC

(***************************************************************************)
(* Bounds of the model.                                                    *)
(***************************************************************************)
NumSlots == 2         \* requests that can be in flight at the same time

(***************************************************************************)
(* Python values: a str, or None.  A call returns a value or raises.       *)
(***************************************************************************)
Str(s) == [type |-> "str", value |-> s]
None == [type |-> "NoneType", value |-> ""]
Return(v) == [raised |-> FALSE, value |-> v]
Raise(e) == [raised |-> TRUE, value |-> e]

(***************************************************************************)
(* Characters and character classes used by the patterns.                  *)
(***************************************************************************)
LowerAlphabet == "abcdefghijklmnopqrstuvwxyz"
UpperAlphabet == "ABCDEFGHIJKLMNOPQRSTUVWXYZ"
DigitAlphabet == "0123456789"
CharsOf(s) == {SubSeq(s, i, i) : i \in 1..Len(s)}
LowerChars == CharsOf(LowerAlphabet)
UpperChars == CharsOf(UpperAlphabet)
DigitChars == CharsOf(DigitAlphabet)
LetterChars == LowerChars \cup UpperChars
WordChars == LetterChars \cup DigitChars \cup {"_"}
SpaceChars == {" ", "\t", "\n", "\r", "\f"}
UpiUserChars == LetterChars \cup DigitChars \cup {".", "-", "_"}
CharAt(s, i) == SubSeq(s, i, i)

\* str.lower() on one character, then on a string
LowerChar(c) ==
    IF c \in UpperChars
    THEN CharAt(LowerAlphabet, CHOOSE i \in 1..26 : CharAt(UpperAlphabet, i) = c)
    ELSE c
RECURSIVE str_lower(_)
str_lower(s) ==
    IF Len(s) = 0 THEN ""
    ELSE LowerChar(CharAt(s, 1)) \o str_lower(SubSeq(s, 2, Len(s)))

\* str.strip(): leading and trailing whitespace removed
RECURSIVE str_lstrip(_)
str_lstrip(s) ==
    IF Len(s) > 0 /\ CharAt(s, 1) \in SpaceChars
    THEN str_lstrip(SubSeq(s, 2, Len(s)))
    ELSE s
RECURSIVE str_rstrip(_)
str_rstrip(s) ==
    IF Len(s) > 0 /\ CharAt(s, Len(s)) \in SpaceChars
    THEN str_rstrip(SubSeq(s, 1, Len(s) - 1))
    ELSE s
str_strip(s) == str_rstrip(str_lstrip(s))

\* Python's `word in text` for strings
str_contains(word, text) ==
    \E i \in 1..(Len(text) - Len(word) + 1) :
        SubSeq(text, i, i + Len(word) - 1) = word

(***************************************************************************)
(* Persona states, keyword lists and patterns of logic.py.                 *)
(***************************************************************************)
IDLE == "idle"
CONFUSED == "confused"
TRUSTING == "trusting"
EXTRACTING == "extracting"
PersonaState == {IDLE, CONFUSED, TRUSTING, EXTRACTING}

SCAM_KEYWORDS ==
    <<"account", "blocked", "suspended", "verify",
      "fraud", "security", "alert", "urgent">>
URGENCY_KEYWORDS == <<"urgent", "immediately", "now", "asap">>
PAYMENT_KEYWORDS == <<"pay", "payment", "transfer", "upi", "bank">>

UPI_PATTERN == "[a-zA-Z0-9.\\-_]{2,}@[a-zA-Z]{2,}"
BANK_ACCOUNT_PATTERN == "\\b\\d{9,18}\\b"
IFSC_PATTERN == "\\b[A-Z]{4}0[A-Z0-9]{6}\\b"
URL_PATTERN == "https?://[^\\s]+"

(***************************************************************************)
(* The regular-expression engine, restricted to the four patterns.         *)
(* RunLen is the length of the longest run of characters of a class        *)
(* (or, with neg, outside it) that starts at position i.                   *)
(***************************************************************************)
RECURSIVE RunLen(_, _, _, _)
RunLen(s, i, cls, neg) ==
    IF i <= Len(s) /\ ((CharAt(s, i) \in cls) # neg)
    THEN 1 + RunLen(s, i + 1, cls, neg)
    ELSE 0

\* \b at the gap before position i
WordBoundary(s, i) ==
    LET before == i > 1 /\ i - 1 <= Len(s) /\ CharAt(s, i - 1) \in WordChars
        after == i >= 1 /\ i <= Len(s) /\ CharAt(s, i) \in WordChars
    IN  before # after

StartsWith(s, i, prefix) ==
    /\ i + Len(prefix) - 1 <= Len(s)
    /\ SubSeq(s, i, i + Len(prefix) - 1) = prefix

\* length of the match of each pattern that starts at position i, 0 if none
MatchUpi(s, i) ==
    LET n == RunLen(s, i, UpiUserChars, FALSE)
        k == RunLen(s, i + n + 1, LetterChars, FALSE)
    IN  IF n >= 2 /\ StartsWith(s, i + n, "@") /\ k >= 2
        THEN n + 1 + k ELSE 0

MatchBankAccount(s, i) ==
    LET n == RunLen(s, i, DigitChars, FALSE)
    IN  IF /\ WordBoundary(s, i)
           /\ n >= 9 /\ n <= 18
           /\ WordBoundary(s, i + n)
        THEN n ELSE 0

MatchIfsc(s, i) ==
    IF /\ WordBoundary(s, i)
       /\ i + 10 <= Len(s)
       /\ \A j \in i..(i + 3) : CharAt(s, j) \in UpperChars
       /\ CharAt(s, i + 4) = "0"
       /\ \A j \in (i + 5)..(i + 10) : CharAt(s, j) \in UpperChars \cup DigitChars
       /\ WordBoundary(s, i + 11)
    THEN 11 ELSE 0

MatchUrl(s, i) ==
    LET p == IF StartsWith(s, i, "https://") THEN 8
             ELSE IF StartsWith(s, i, "http://") THEN 7 ELSE 0
        n == RunLen(s, i + p, SpaceChars, TRUE)
    IN  IF p > 0 /\ n >= 1 THEN p + n ELSE 0

re_match(pattern, s, i) ==
    CASE pattern = UPI_PATTERN -> MatchUpi(s, i)
      [] pattern = BANK_ACCOUNT_PATTERN -> MatchBankAccount(s, i)
      [] pattern = IFSC_PATTERN -> MatchIfsc(s, i)
      [] pattern = URL_PATTERN -> MatchUrl(s, i)

\* re.search and re.findall; both raise TypeError on a non-string
re_search_str(pattern, s) == \E i \in 1..Len(s) : re_match(pattern, s, i) > 0

RECURSIVE re_findall_from(_, _, _)
re_findall_from(pattern, s, i) ==
    IF i > Len(s) THEN <<>>
    ELSE LET n == re_match(pattern, s, i)
         IN  IF n > 0
             THEN <<SubSeq(s, i, i + n - 1)>> \o re_findall_from(pattern, s, i + n)
             ELSE re_findall_from(pattern, s, i + 1)
re_findall_str(pattern, s) == re_findall_from(pattern, s, 1)

(***************************************************************************)
(* Scam detection.  The message is a Python value; None has no lower().    *)
(* The result is Return(<<is_scam, confidence>>), confidence in hundredths.*)
(***************************************************************************)
Min(a, b) == IF a < b THEN a ELSE b
Max(a, b) == IF a > b THEN a ELSE b
AnyIn(words, text) == \E k \in 1..Len(words) : str_contains(words[k], text)
CountIn(words, text) == Cardinality({k \in 1..Len(words) : str_contains(words[k], text)})

\* detect_scam scoring a flat 0.1 per scam keyword, without the 0.3 base
detect_scam_flat(message) ==
    IF message.type # "str" THEN Raise("AttributeError")
    ELSE
    LET message_lower == str_lower(message.value)
        keyword_count == CountIn(SCAM_KEYWORDS, message_lower)
        score == (IF keyword_count > 0 THEN Min(keyword_count * 10, 50) ELSE 0)
               + (IF AnyIn(URGENCY_KEYWORDS, message_lower) THEN 20 ELSE 0)
               + (IF AnyIn(PAYMENT_KEYWORDS, message_lower) THEN 20 ELSE 0)
               + (IF re_search_str(URL_PATTERN, message.value) THEN 20 ELSE 0)
               + (IF re_search_str(UPI_PATTERN, message.value) THEN 30 ELSE 0)
               + (IF re_search_str(BANK_ACCOUNT_PATTERN, message.value) THEN 30 ELSE 0)
        confidence == Min(score, 100)
        is_scam == confidence > 40
    IN  Return(<<is_scam, confidence>>)

\* detect_scam with the threshold compared by >= instead of >
detect_scam_ge(message) ==
    IF message.type # "str" THEN Raise("AttributeError")
    ELSE
    LET message_lower == str_lower(message.value)
        keyword_count == CountIn(SCAM_KEYWORDS, message_lower)
        score == (IF keyword_count > 0 THEN 30 + Min(keyword_count * 10, 50) ELSE 0)
               + (IF AnyIn(URGENCY_KEYWORDS, message_lower) THEN 20 ELSE 0)
               + (IF AnyIn(PAYMENT_KEYWORDS, message_lower) THEN 20 ELSE 0)
               + (IF re_search_str(URL_PATTERN, message.value) THEN 20 ELSE 0)
               + (IF re_search_str(UPI_PATTERN, message.value) THEN 30 ELSE 0)
               + (IF re_search_str(BANK_ACCOUNT_PATTERN, message.value) THEN 30 ELSE 0)
        confidence == Min(score, 100)
        is_scam == confidence >= 40
    IN  Return(<<is_scam, confidence>>)

detect_scam(message) ==
    IF message.type # "str" THEN Raise("AttributeError")
    ELSE
    LET message_lower == str_lower(message.value)
        keyword_count == CountIn(SCAM_KEYWORDS, message_lower)
        score == (IF keyword_count > 0 THEN 30 + Min(keyword_count * 10, 50) ELSE 0)
               + (IF AnyIn(URGENCY_KEYWORDS, message_lower) THEN 20 ELSE 0)
               + (IF AnyIn(PAYMENT_KEYWORDS, message_lower) THEN 20 ELSE 0)
               + (IF re_search_str(URL_PATTERN, message.value) THEN 20 ELSE 0)
               + (IF re_search_str(UPI_PATTERN, message.value) THEN 30 ELSE 0)
               + (IF re_search_str(BANK_ACCOUNT_PATTERN, message.value) THEN 30 ELSE 0)
        confidence == Min(score, 100)
        is_scam == confidence > 40
    IN  Return(<<is_scam, confidence>>)

(***************************************************************************)
(* Entity extraction: four findall projections of the raw message.         *)
(***************************************************************************)
NoEntities ==
    [upi_ids |-> <<>>, bank_accounts |-> <<>>,
     ifsc_codes |-> <<>>, phishing_links |-> <<>>]

extract_entities(message) ==
    IF message.type # "str" THEN Raise("TypeError")
    ELSE Return([upi_ids |-> re_findall_str(UPI_PATTERN, message.value),
                 bank_accounts |-> re_findall_str(BANK_ACCOUNT_PATTERN, message.value),
                 ifsc_codes |-> re_findall_str(IFSC_PATTERN, message.value),
                 phishing_links |-> re_findall_str(URL_PATTERN, message.value)])

(***************************************************************************)
(* Persona state transition.                                               *)
(***************************************************************************)
\* determine_next_state with payment handles left out of has_payment_info
determine_next_state_no_upi(current_state, message, entities, is_scam) ==
    LET has_payment_info ==
            \/ Len(entities.bank_accounts) > 0
            \/ Len(entities.phishing_links) > 0
    IN  IF ~is_scam THEN IDLE
        ELSE IF current_state = IDLE THEN CONFUSED
        ELSE IF current_state = CONFUSED THEN TRUSTING
        ELSE IF current_state = TRUSTING
             THEN (IF has_payment_info THEN EXTRACTING ELSE TRUSTING)
        ELSE IF current_state = EXTRACTING THEN EXTRACTING
        ELSE IDLE

\* determine_next_state with EXTRACTING falling back to TRUSTING when the
\* message carries no payment information
determine_next_state_regress(current_state, message, entities, is_scam) ==
    LET has_payment_info ==
            \/ Len(entities.upi_ids) > 0
            \/ Len(entities.bank_accounts) > 0
            \/ Len(entities.phishing_links) > 0
    IN  IF ~is_scam THEN IDLE
        ELSE IF current_state = IDLE THEN CONFUSED
        ELSE IF current_state = CONFUSED THEN TRUSTING
        ELSE IF current_state \in {TRUSTING, EXTRACTING}
             THEN (IF has_payment_info THEN EXTRACTING ELSE TRUSTING)
        ELSE IDLE

\* determine_next_state returning a misspelt state name from CONFUSED
determine_next_state_typo(current_state, message, entities, is_scam) ==
    LET has_payment_info ==
            \/ Len(entities.upi_ids) > 0
            \/ Len(entities.bank_accounts) > 0
            \/ Len(entities.phishing_links) > 0
    IN  IF ~is_scam THEN IDLE
        ELSE IF current_state = IDLE THEN CONFUSED
        ELSE IF current_state = CONFUSED THEN "trusted"
        ELSE IF current_state = TRUSTING
             THEN (IF has_payment_info THEN EXTRACTING ELSE TRUSTING)
        ELSE IF current_state = EXTRACTING THEN EXTRACTING
        ELSE IDLE

\* determine_next_state with IFSC codes counted as payment information
determine_next_state_ifsc(current_state, message, entities, is_scam) ==
    LET has_payment_info ==
            \/ Len(entities.upi_ids) > 0
            \/ Len(entities.bank_accounts) > 0
            \/ Len(entities.ifsc_codes) > 0
            \/ Len(entities.phishing_links) > 0
    IN  IF ~is_scam THEN IDLE
        ELSE IF current_state = IDLE THEN CONFUSED
        ELSE IF current_state = CONFUSED THEN TRUSTING
        ELSE IF current_state = TRUSTING
             THEN (IF has_payment_info THEN EXTRACTING ELSE TRUSTING)
        ELSE IF current_state = EXTRACTING THEN EXTRACTING
        ELSE IDLE

determine_next_state(current_state, message, entities, is_scam) ==
    LET has_payment_info ==
            \/ Len(entities.upi_ids) > 0
            \/ Len(entities.bank_accounts) > 0
            \/ Len(entities.phishing_links) > 0
    IN  IF ~is_scam THEN IDLE
        ELSE IF current_state = IDLE THEN CONFUSED
        ELSE IF current_state = CONFUSED THEN TRUSTING
        ELSE IF current_state = TRUSTING
             THEN (IF has_payment_info THEN EXTRACTING ELSE TRUSTING)
        ELSE IF current_state = EXTRACTING THEN EXTRACTING
        ELSE IDLE

(***************************************************************************)
(* Reply synthesis.  gen is what the external generator does on this call: *)
(* no client configured, the request raising, a response without choices,  *)
(* or a response whose first choice has the given content (a str or None). *)
(* choice is the index random.choice picks.                                *)
(***************************************************************************)
USE_LLM == TRUE

llm_generate_reply(state, message, entities, gen) ==
    IF gen.kind = "no_client" THEN Raise("RuntimeError")
    ELSE IF gen.kind = "api_error" THEN Raise("APIError")
    ELSE IF gen.kind = "no_choices" THEN Raise("IndexError")
    ELSE IF gen.content.type # "str" THEN Raise("AttributeError")
    ELSE Return(str_strip(gen.content.value))

IdleReply == "Hello, I received this message but I am not sure what it is about."
ConfusedReplies ==
    <<"I am a bit confused, can you explain this again?",
      "Sorry, I am not very good with these things. What should I do?",
      "Hello, is there a problem with my account?">>
TrustingReplies ==
    <<"Okay, I understand. Please tell me the next step.",
      "Thank you for explaining. How do I fix this?",
      "I just want this issue to be resolved.">>
UpiReply == "I tried the UPI ID but it failed. Is there another UPI or bank account?"
BankReply == "It is asking for IFSC code. Can you send that also?"
LinkReply == "The link is not opening properly. Is there another one?"
ExtractingReplies ==
    <<"The payment is not going through. Can you send details again?",
      "My app is showing an error. What should I do now?",
      "Can this be done in another way?">>
ApologyReply == "Sorry, I am not sure what to do."

\* the rule-based replies asking about a bank account before a UPI id
rule_based_reply_bank_first(state, entities, choice) ==
    IF state = IDLE THEN IdleReply
    ELSE IF state = CONFUSED THEN ConfusedReplies[choice]
    ELSE IF state = TRUSTING THEN TrustingReplies[choice]
    ELSE IF state = EXTRACTING
         THEN (IF Len(entities.bank_accounts) > 0 THEN BankReply
               ELSE IF Len(entities.upi_ids) > 0 THEN UpiReply
               ELSE IF Len(entities.phishing_links) > 0 THEN LinkReply
               ELSE ExtractingReplies[choice])
    ELSE ApologyReply

rule_based_reply(state, entities, choice) ==
    IF state = IDLE THEN IdleReply
    ELSE IF state = CONFUSED THEN ConfusedReplies[choice]
    ELSE IF state = TRUSTING THEN TrustingReplies[choice]
    ELSE IF state = EXTRACTING
         THEN (IF Len(entities.upi_ids) > 0 THEN UpiReply
               ELSE IF Len(entities.bank_accounts) > 0 THEN BankReply
               ELSE IF Len(entities.phishing_links) > 0 THEN LinkReply
               ELSE ExtractingReplies[choice])
    ELSE ApologyReply

\* One run of generate_agent_reply.  gens[i] is what the external generator
\* would do on the i-th request made to it; the run reports its result and
\* how many requests it made.
\* generate_agent_reply asking the generator again after a failed request
generate_agent_reply_run_retry(state, message, entities, gens, choice) ==
    LET attempt == llm_generate_reply(state, message, entities, gens[1])
        again == llm_generate_reply(state, message, entities, gens[Len(gens)])
    IN  IF USE_LLM /\ ~attempt.raised
        THEN [result |-> Return(attempt.value), attempts |-> 1]
        ELSE IF USE_LLM /\ Len(gens) > 1
        THEN [result |-> IF again.raised
                         THEN Return(rule_based_reply(state, entities, choice))
                         ELSE Return(again.value),
              attempts |-> 2]
        ELSE [result |-> Return(rule_based_reply(state, entities, choice)),
              attempts |-> IF USE_LLM THEN 1 ELSE 0]

generate_agent_reply_run(state, message, entities, gens, choice) ==
    LET attempt == llm_generate_reply(state, message, entities, gens[1])
    IN  IF USE_LLM /\ ~attempt.raised
        THEN [result |-> Return(attempt.value), attempts |-> 1]
        ELSE [result |-> Return(rule_based_reply(state, entities, choice)),
              attempts |-> IF USE_LLM THEN 1 ELSE 0]

generate_agent_reply(state, message, entities, gen, choice) ==
    generate_agent_reply_run(state, message, entities, <<gen>>, choice).result

(***************************************************************************)
(* Conversation store: a dict from conversation id to persona state.       *)
(***************************************************************************)
get_persona_state(states, conversation_id) ==
    IF conversation_id \in DOMAIN states THEN states[conversation_id] ELSE IDLE

\* update_persona_state rebinding the dict to one that holds only this entry
update_persona_state_rebind(states, conversation_id, new_state) ==
    [c \in {conversation_id} |-> new_state]

update_persona_state(states, conversation_id, new_state) ==
    [c \in (DOMAIN states) \cup {conversation_id} |->
        IF c = conversation_id THEN new_state ELSE states[c]]

(***************************************************************************)
(* Inputs of the model.                                                    *)
(***************************************************************************)
HelloFriend == "Hello friend"
UrgentLottery == "Urgent lottery winner! Click link."
PayTaxNow == "You must pay tax now."
SendToUpi == "Send to UPI abc@upi"
LotteryBank == "You have won a lottery! Urgent! Send money to bank account 123456789."
PayToAll == "Pay to 1234567890 and IFSC ABCD0123456 and upi test@okicici"
VerifyIfsc == "Urgent: verify with IFSC ABCD0123456"
VerifyLink == "Verify your account at https://secure-login.example/x?id=1 immediately"
BlockedAll == "ALERT: account blocked, suspended for fraud. Security must verify, urgent"

\* messages posted to the API
ApiMessages == {UrgentLottery, PayTaxNow, SendToUpi}
\* messages the pure operations are called with directly
TextMessages ==
    ApiMessages \cup
    {HelloFriend, LotteryBank, PayToAll, VerifyIfsc, VerifyLink, BlockedAll,
     "", " ", " \t\n", "now", "alert", "upi", "http://x", "ab@cd",
     "123456789", "12345678", "1234567890123456789", "a@bc", "ABCD0123456"}
Messages == {Str(m) : m \in TextMessages} \cup {None}

ConversationIds == {"c1", "c2"}
API_KEY == "honeypot-secret-key-123"
NoKey == "<no header>"
ApiKeys == {NoKey, "wrong", API_KEY}

\* what the external generator can do on one call
GeneratedText == " Oh dear, what should I do next? "
GeneratorOutcomes ==
    {[kind |-> k, content |-> None] : k \in {"no_client", "api_error", "no_choices", "content"}}
    \cup {[kind |-> "content", content |-> Str(t)] : t \in {"", "  ", GeneratedText}}
Choices == 1..3

\* entity sets the transition function and the synthesizer are called with
SomeList == {<<>>, <<"x">>}
EntitySets ==
    [upi_ids : SomeList, bank_accounts : SomeList,
     ifsc_codes : SomeList, phishing_links : SomeList]

(***************************************************************************)
(* main.py: the response models and the safe response.                     *)
(***************************************************************************)
HoneypotResponse(is_scam, confidence, agent_reply, extracted_entities, persona_state) ==
    [status |-> 200,
     is_scam |-> is_scam,
     confidence |-> confidence,
     agent_reply |-> agent_reply,
     extracted_entities |-> extracted_entities,
     persona_state |-> persona_state]

get_safe_response(reply) ==
    HoneypotResponse(FALSE, 80, reply, NoEntities, "idle")

\* HTTPException(status_code=403, detail="Invalid API Key")
Forbidden == [status |-> 403, detail |-> "Invalid API Key"]

\* the key check of the handler: a key is rejected only when one is given
\* and it differs from the configured one
api_key_rejected_unless_none(x_api_key) == x_api_key = NoKey
api_key_rejected(x_api_key) == x_api_key # NoKey /\ x_api_key # API_KEY

InternalErrorReply == "Internal error handled safely."
LogicUnavailableReply == "Logic unavailable, running in safe mode."

\* the handler without its except clause converting the fault
internal_error_response_propagated == [status |-> 500, detail |-> "Internal Server Error"]
internal_error_response == get_safe_response(InternalErrorReply)

(***************************************************************************)
(* State.                                                                  *)
(*   conversation_states  logic._conversation_states                       *)
(*   logic_imported       FALSE when `import logic` failed (logic is None) *)
(*   reqs                 the POST requests in flight, one per slot: the   *)
(*                        handler's position and its local variables       *)
(*   running              the slot whose coroutine holds the event loop,   *)
(*                        0 when the loop is free                          *)
(*   serial_states        history: per conversation, the state obtained by *)
(*                        applying the transitions one after the other in  *)
(*                        the order of their writes                        *)
(*   scenario             history: per conversation, how many steps of the *)
(*                        state-progression scenario of test_state_machine *)
(*                        its latest completed requests have matched       *)
(*   delivered            the request that has just completed and its      *)
(*                        response, until the next request arrives         *)
(*   call                 the last direct call of a core operation         *)
(***************************************************************************)
VARIABLES conversation_states, logic_imported, reqs, running,
          serial_states, scenario, delivered, call
vars == <<conversation_states, logic_imported, reqs, running,
          serial_states, scenario, delivered, call>>

Slots == 1..NumSlots
NoResponse == [status |-> 0]
NoCall == [op |-> "none"]

IdleSlot ==
    [pc |-> "idle",
     conversation_id |-> "",
     message |-> "",
     x_api_key |-> NoKey,
     stored_at_entry |-> "",
     is_scam |-> FALSE,
     confidence |-> 0,
     entities |-> NoEntities,
     current_state |-> "",
     next_state |-> "",
     agent_reply |-> ""]

NoDelivery ==
    [conversation_id |-> "", message |-> "", x_api_key |-> NoKey,
     stored_at_entry |-> "", fault |-> "", response |-> NoResponse]

\* The handler is a coroutine: it keeps the event loop from its first
\* statement until it returns, except where it awaits.  Its body has no
\* await expression, so there is no position at which it suspends.
\* the handler awaiting the reply synthesis
AwaitPointsAtReply == {"generate_agent_reply"}
AwaitPoints == {}

CanRun(r) == running = r \/ running = 0

Advance(r, slot) ==
    /\ reqs' = [reqs EXCEPT ![r] = slot]
    /\ running' = IF slot.pc \in AwaitPoints \cup {"idle"} THEN 0 ELSE r

\* test_state_machine, as an observer of one conversation: a scam verdict
\* for a conversation stored as idle is step 1; after step 1 a scam verdict
\* for a message without payment entities is step 2; after step 2 a scam
\* verdict for a message with a payment handle is step 3.
HasVerdict(response) == response.status = 200 /\ response.is_scam
NoPaymentEntity(m) ==
    /\ re_findall_str(UPI_PATTERN, m) = <<>>
    /\ re_findall_str(BANK_ACCOUNT_PATTERN, m) = <<>>
    /\ re_findall_str(URL_PATTERN, m) = <<>>
ScenarioStep(step, slot, response) ==
    IF ~HasVerdict(response) THEN 0
    ELSE IF step = 1 /\ NoPaymentEntity(slot.message) THEN 2
    ELSE IF step = 2 /\ re_findall_str(UPI_PATTERN, slot.message) # <<>> THEN 3
    ELSE IF slot.stored_at_entry = IDLE THEN 1
    ELSE 0

\* the handler returns (or raises an HTTPException): the response goes out
\* and the locals are gone; fault names the call that raised, if one did
Finish(r, slot, fault, response) ==
    /\ Advance(r, IdleSlot)
    /\ delivered' = [conversation_id |-> slot.conversation_id,
                     message |-> slot.message,
                     x_api_key |-> slot.x_api_key,
                     stored_at_entry |-> slot.stored_at_entry,
                     fault |-> fault,
                     response |-> response]
    /\ scenario' = [scenario EXCEPT ![slot.conversation_id] =
                        ScenarioStep(@, slot, response)]

\* the except clause of the handler
Except(r, step) == Finish(r, reqs[r], step, internal_error_response)

Init ==
    /\ conversation_states = [c \in {} |-> IDLE]
    /\ logic_imported \in BOOLEAN
    /\ reqs = [r \in Slots |-> IdleSlot]
    /\ running = 0
    /\ serial_states = [c \in {} |-> IDLE]
    /\ scenario = [c \in ConversationIds |-> 0]
    /\ delivered = NoDelivery
    /\ call = NoCall

(***************************************************************************)
(* A client posts a request for a conversation: the request is in flight   *)
(* and its handler is scheduled on the event loop.  It takes the first     *)
(* free slot.                                                              *)
(***************************************************************************)
Receive(r) ==
    /\ reqs[r].pc = "idle"
    /\ \A q \in Slots : q < r => reqs[q].pc # "idle"
    /\ \E cid \in ConversationIds :
          reqs' = [reqs EXCEPT ![r] =
                      [IdleSlot EXCEPT !.pc = "scheduled", !.conversation_id = cid]]
    /\ UNCHANGED <<conversation_states, logic_imported, running,
                   serial_states, scenario, delivered, call>>

(***************************************************************************)
(* honeypot_post, statement by statement.  The handler of a scheduled      *)
(* request starts when the event loop is free, with the request's message  *)
(* and key bound to its parameters; its first statement is the key check.  *)
(***************************************************************************)
CheckApiKey(r) ==
    /\ reqs[r].pc = "scheduled"
    /\ running = 0
    /\ \E m \in ApiMessages, key \in ApiKeys :
          LET cid == reqs[r].conversation_id
              slot == [IdleSlot EXCEPT
                          !.pc = "check_logic",
                          !.conversation_id = cid,
                          !.message = m,
                          !.x_api_key = key,
                          !.stored_at_entry =
                              get_persona_state(conversation_states, cid)]
          IN  IF api_key_rejected(key)
              THEN Finish(r, slot, "", Forbidden)
              ELSE /\ Advance(r, slot)
                   /\ delivered' = NoDelivery
                   /\ UNCHANGED scenario
    /\ UNCHANGED <<conversation_states, logic_imported, serial_states, call>>

CheckLogic(r) ==
    /\ reqs[r].pc = "check_logic"
    /\ CanRun(r)
    /\ IF ~logic_imported
       THEN Finish(r, reqs[r], "", get_safe_response(LogicUnavailableReply))
       ELSE /\ Advance(r, [reqs[r] EXCEPT !.pc = "detect_scam"])
            /\ UNCHANGED <<scenario, delivered>>
    /\ UNCHANGED <<conversation_states, logic_imported, serial_states, call>>

DetectScam(r) ==
    /\ reqs[r].pc = "detect_scam"
    /\ CanRun(r)
    /\ \E injected \in BOOLEAN :
          LET result == IF injected THEN Raise("ValueError")
                        ELSE detect_scam(Str(reqs[r].message))
          IN  IF result.raised
              THEN Except(r, "detect_scam")
              ELSE /\ Advance(r, [reqs[r] EXCEPT
                          !.pc = "extract_entities",
                          !.is_scam = result.value[1],
                          !.confidence = Max(0, Min(100, result.value[2]))])
                   /\ UNCHANGED <<scenario, delivered>>
    /\ UNCHANGED <<conversation_states, logic_imported, serial_states, call>>

ExtractEntities(r) ==
    /\ reqs[r].pc = "extract_entities"
    /\ CanRun(r)
    /\ \E injected \in BOOLEAN :
          LET result == IF injected THEN Raise("ValueError")
                        ELSE extract_entities(Str(reqs[r].message))
          IN  IF result.raised
              THEN Except(r, "extract_entities")
              ELSE /\ Advance(r, [reqs[r] EXCEPT
                          !.pc = "get_persona_state",
                          !.entities = result.value])
                   /\ UNCHANGED <<scenario, delivered>>
    /\ UNCHANGED <<conversation_states, logic_imported, serial_states, call>>

GetPersonaState(r) ==
    /\ reqs[r].pc = "get_persona_state"
    /\ CanRun(r)
    /\ Advance(r, [reqs[r] EXCEPT
          !.pc = "determine_next_state",
          !.current_state =
              get_persona_state(conversation_states, reqs[r].conversation_id)])
    /\ UNCHANGED <<conversation_states, logic_imported,
                   serial_states, scenario, delivered, call>>

DetermineNextState(r) ==
    /\ reqs[r].pc = "determine_next_state"
    /\ CanRun(r)
    /\ \E injected \in BOOLEAN :
          IF injected
          THEN Except(r, "determine_next_state")
          ELSE /\ Advance(r, [reqs[r] EXCEPT
                      !.pc = "generate_agent_reply",
                      !.next_state =
                          determine_next_state(reqs[r].current_state, reqs[r].message,
                                               reqs[r].entities, reqs[r].is_scam)])
               /\ UNCHANGED <<scenario, delivered>>
    /\ UNCHANGED <<conversation_states, logic_imported, serial_states, call>>

\* the handler handing generate_agent_reply the state it read from the store
reply_state_prior(slot) == slot.current_state
\* the state the handler hands to generate_agent_reply: the next state
reply_state(slot) == slot.next_state

GenerateAgentReply(r) ==
    /\ reqs[r].pc = "generate_agent_reply"
    /\ CanRun(r)
    /\ \E injected \in BOOLEAN, gen \in GeneratorOutcomes, choice \in Choices :
          LET result == IF injected THEN Raise("ValueError")
                        ELSE generate_agent_reply(reply_state(reqs[r]), reqs[r].message,
                                                  reqs[r].entities, gen, choice)
          IN  IF result.raised
              THEN Except(r, "generate_agent_reply")
              ELSE /\ Advance(r, [reqs[r] EXCEPT
                          !.pc = "update_persona_state",
                          !.agent_reply = result.value])
                   /\ UNCHANGED <<scenario, delivered>>
    /\ UNCHANGED <<conversation_states, logic_imported, serial_states, call>>

UpdatePersonaState(r) ==
    /\ reqs[r].pc = "update_persona_state"
    /\ CanRun(r)
    /\ conversation_states' =
          update_persona_state(conversation_states, reqs[r].conversation_id,
                               reqs[r].next_state)
    /\ serial_states' =
          update_persona_state(serial_states, reqs[r].conversation_id,
              determine_next_state(
                  get_persona_state(serial_states, reqs[r].conversation_id),
                  reqs[r].message, reqs[r].entities, reqs[r].is_scam))
    /\ Advance(r, [reqs[r] EXCEPT !.pc = "return"])
    /\ UNCHANGED <<logic_imported, scenario, delivered, call>>

ReturnResponse(r) ==
    /\ reqs[r].pc = "return"
    /\ CanRun(r)
    /\ Finish(r, reqs[r], "",
              HoneypotResponse(reqs[r].is_scam, reqs[r].confidence, reqs[r].agent_reply,
                               reqs[r].entities, reqs[r].next_state))
    /\ UNCHANGED <<conversation_states, logic_imported, serial_states, call>>

Next ==
    \E r \in Slots :
        \/ Receive(r)
        \/ CheckApiKey(r)
        \/ CheckLogic(r)
        \/ DetectScam(r)
        \/ ExtractEntities(r)
        \/ GetPersonaState(r)
        \/ DetermineNextState(r)
        \/ GenerateAgentReply(r)
        \/ UpdatePersonaState(r)
        \/ ReturnResponse(r)

Spec == Init /\ [][Next]_vars

(***************************************************************************)
(* Direct calls of the core operations (as the tests and any other caller  *)
(* of logic.py make them), one call at a time.                             *)
(***************************************************************************)
AnyState == PersonaState \cup {"other"}

InitLogic ==
    /\ conversation_states = [c \in {} |-> IDLE]
    /\ logic_imported = TRUE
    /\ reqs = [r \in Slots |-> IdleSlot]
    /\ running = 0
    /\ serial_states = [c \in {} |-> IDLE]
    /\ scenario = [c \in ConversationIds |-> 0]
    /\ delivered = NoDelivery
    /\ call = NoCall

ApiVars == <<conversation_states, logic_imported, reqs, running,
             serial_states, scenario, delivered>>

CallDetectScam ==
    /\ call = NoCall
    /\ \E m \in Messages :
          call' = [op |-> "detect_scam", message |-> m, result |-> detect_scam(m)]
    /\ UNCHANGED ApiVars

CallExtractEntities ==
    /\ call = NoCall
    /\ \E m \in Messages :
          call' = [op |-> "extract_entities", message |-> m,
                   result |-> extract_entities(m)]
    /\ UNCHANGED ApiVars

CallDetermineNextState ==
    /\ call = NoCall
    /\ \E cur \in AnyState, m \in ApiMessages, e \in EntitySets, s \in BOOLEAN :
          call' = [op |-> "determine_next_state", current_state |-> cur,
                   message |-> m, entities |-> e, is_scam |-> s,
                   result |-> determine_next_state(cur, m, e, s)]
    /\ UNCHANGED ApiVars

CallGenerateAgentReply ==
    /\ call = NoCall
    /\ \E st \in AnyState, e \in EntitySets, gen \in GeneratorOutcomes,
          retry_gen \in GeneratorOutcomes, ch \in Choices :
          LET run == generate_agent_reply_run(st, UrgentLottery, e,
                                              <<gen, retry_gen>>, ch)
          IN  call' = [op |-> "generate_agent_reply", state |-> st,
                       message |-> UrgentLottery, entities |-> e,
                       gen |-> gen, retry_gen |-> retry_gen, choice |-> ch,
                       attempts |-> run.attempts,
                       result |-> run.result]
    /\ UNCHANGED ApiVars

\* the caller takes the result
CallReturn ==
    /\ call # NoCall
    /\ call' = NoCall
    /\ UNCHANGED ApiVars

NextLogic ==
    \/ CallReturn
    \/ CallDetectScam
    \/ CallExtractEntities
    \/ CallDetermineNextState
    \/ CallGenerateAgentReply

SpecLogic == InitLogic /\ [][NextLogic]_vars

(***************************************************************************)
(* Helpers of the properties.                                              *)
(***************************************************************************)
Range(seq) == {seq[i] : i \in 1..Len(seq)}
Stored(states, c) == IF c \in DOMAIN states THEN states[c] ELSE IDLE
\* slot r executes its update_persona_state statement in this step
Writes(r) == reqs[r].pc = "update_persona_state" /\ reqs'[r].pc # "update_persona_state"
\* slot r executes its get_persona_state statement in this step
Reads(r) == reqs[r].pc = "get_persona_state" /\ reqs'[r].pc # "get_persona_state"
Processed == delivered.response.status = 200 /\ delivered.fault = ""

(***************************************************************************)
(* C1: for every current state in {IDLE, CONFUSED, TRUSTING, EXTRACTING},  *)
(* every is_scam value and every entity set, determine_next_state returns  *)
(* the entry of the specified transition table.                            *)
(***************************************************************************)
TransitionTable ==
    [ cur \in PersonaState |->
        [ col \in {"not_scam", "scam_no_payment", "scam_payment"} |->
            IF col = "not_scam" THEN IDLE
            ELSE CASE cur = IDLE -> CONFUSED
                   [] cur = CONFUSED -> TRUSTING
                   [] cur = TRUSTING -> IF col = "scam_payment" THEN EXTRACTING ELSE TRUSTING
                   [] cur = EXTRACTING -> EXTRACTING ] ]
TableColumn(is_scam, entities) ==
    IF ~is_scam THEN "not_scam"
    ELSE IF entities.upi_ids # <<>> \/ entities.bank_accounts # <<>>
            \/ entities.phishing_links # <<>>
         THEN "scam_payment" ELSE "scam_no_payment"
C1_TransitionTable ==
    (call.op = "determine_next_state" /\ call.current_state \in PersonaState)
    => call.result = TransitionTable[call.current_state][TableColumn(call.is_scam, call.entities)]
C1_Witness ==
    /\ call.op = "determine_next_state"
    /\ call.current_state = TRUSTING /\ call.is_scam
    /\ call.entities.upi_ids # <<>> /\ call.entities.bank_accounts = <<>>
    /\ call.entities.phishing_links = <<>>
    /\ call.result = EXTRACTING

(***************************************************************************)
(* C2: every change of a conversation's stored persona state is one        *)
(* forward step under a scam verdict or a reset to IDLE under a non-scam   *)
(* verdict, and under a scam verdict only TRUSTING and EXTRACTING repeat.  *)
(***************************************************************************)
ForwardSteps == {<<IDLE, CONFUSED>>, <<CONFUSED, TRUSTING>>, <<TRUSTING, EXTRACTING>>}
C2_ForwardLatch ==
    [][\A c \in ConversationIds :
          LET old == Stored(conversation_states, c)
              new == Stored(conversation_states', c)
          IN  /\ old # new =>
                    \E r \in Slots :
                       /\ Writes(r) /\ reqs[r].conversation_id = c
                       /\ \/ reqs[r].is_scam /\ <<old, new>> \in ForwardSteps
                          \/ ~reqs[r].is_scam /\ new = IDLE
              /\ \A r \in Slots :
                    (Writes(r) /\ reqs[r].conversation_id = c /\ reqs[r].is_scam /\ old = new)
                    => old \in {TRUSTING, EXTRACTING}]_vars
C2_Witness ==
    /\ Processed
    /\ delivered.stored_at_entry = EXTRACTING
    /\ ~delivered.response.is_scam
    /\ Stored(conversation_states, delivered.conversation_id) = IDLE

(***************************************************************************)
(* C3: for a conversation stored as IDLE (or unseen), three successive     *)
(* requests that all get a scam verdict, the second without payment        *)
(* entity and the third with a payment handle, report CONFUSED, TRUSTING   *)
(* and EXTRACTING, and the third response lists the payment handle.        *)
(***************************************************************************)
C3_Progression ==
    (delivered.response.status = 200 /\ delivered.response.is_scam) =>
        LET step == scenario[delivered.conversation_id]
            handles == re_findall_str(UPI_PATTERN, delivered.message)
        IN  /\ step = 1 => delivered.response.persona_state = CONFUSED
            /\ step = 2 => delivered.response.persona_state = TRUSTING
            /\ step = 3 =>
                  /\ delivered.response.persona_state = EXTRACTING
                  /\ Range(handles) \subseteq
                        Range(delivered.response.extracted_entities.upi_ids)
C3_Witness ==
    /\ delivered.response.status = 200 /\ delivered.response.is_scam
    /\ scenario[delivered.conversation_id] = 3
    /\ delivered.message = SendToUpi
    /\ delivered.response.persona_state = EXTRACTING
    /\ "abc@upi" \in Range(delivered.response.extracted_entities.upi_ids)

(***************************************************************************)
(* C4: the read, compute and write of one request are never interleaved    *)
(* with those of another request: every write finds the stored state its   *)
(* request read, and the stored states are those obtained by applying the  *)
(* transitions one after the other in the order of the writes.             *)
(***************************************************************************)
C4_Serialized ==
    [][\A r \in Slots :
          Writes(r) =>
             /\ reqs[r].current_state =
                   Stored(conversation_states, reqs[r].conversation_id)
             /\ conversation_states' = serial_states']_vars
C4_Witness ==
    \E r1 \in Slots, r2 \in Slots :
       /\ r1 # r2
       /\ reqs[r1].conversation_id = reqs[r2].conversation_id
       /\ reqs[r1].pc = "return"
       /\ reqs[r1].current_state = CONFUSED
       /\ reqs[r1].next_state = TRUSTING
       /\ reqs[r2].pc = "scheduled"
       /\ Stored(conversation_states, reqs[r1].conversation_id) = TRUSTING
       /\ conversation_states = serial_states

(***************************************************************************)
(* C5: the verdict of detect_scam has its confidence within [0.0, 1.0]     *)
(* and is_scam exactly when the confidence is greater than 0.4.            *)
(***************************************************************************)
C5_Verdict ==
    (call.op = "detect_scam" /\ ~call.result.raised) =>
        /\ call.result.value[2] \in 0..100
        /\ call.result.value[1] <=> (call.result.value[2] > 40)
C5_Witness ==
    /\ call.op = "detect_scam"
    /\ call.message = Str("alert")
    /\ call.result = Return(<<FALSE, 40>>)

(***************************************************************************)
(* C6: for an empty, whitespace-only or non-text message, detect_scam      *)
(* returns (false, 0.0) and extract_entities returns four empty sequences, *)
(* and neither raises.                                                     *)
(***************************************************************************)
BlankOrNonText(m) == m.type # "str" \/ str_strip(m.value) = ""
C6_BlankInput ==
    /\ (call.op = "detect_scam" /\ BlankOrNonText(call.message)) =>
          (~call.result.raised /\ call.result.value = <<FALSE, 0>>)
    /\ (call.op = "extract_entities" /\ BlankOrNonText(call.message)) =>
          (~call.result.raised /\ call.result.value = NoEntities)

C8_SafeDefault ==
    delivered.fault # "" =>
        /\ delivered.response.status = 200
        /\ delivered.response.is_scam = FALSE
        /\ delivered.response.confidence = 0
        /\ delivered.response.extracted_entities = NoEntities
        /\ delivered.response.persona_state = IDLE

(***************************************************************************)
(* C9: generate_agent_reply never raises and never returns an empty        *)
(* string, and when the generator fails (no client, exception, malformed   *)
(* or empty response) the reply is the rule-based text of the state.       *)
(***************************************************************************)
RuleBasedTexts(state, entities) ==
    IF state = IDLE THEN {IdleReply}
    ELSE IF state = CONFUSED THEN Range(ConfusedReplies)
    ELSE IF state = TRUSTING THEN Range(TrustingReplies)
    ELSE IF state = EXTRACTING
         THEN {UpiReply, BankReply, LinkReply} \cup Range(ExtractingReplies)
    ELSE {ApologyReply}
GeneratorFailed(gen) ==
    \/ gen.kind # "content"
    \/ gen.content.type # "str"
    \/ str_strip(gen.content.value) = ""
C9_ReplyTotal ==
    call.op = "generate_agent_reply" =>
        /\ ~call.result.raised
        /\ call.result.value # ""
        /\ GeneratorFailed(call.gen) =>
              call.result.value \in RuleBasedTexts(call.state, call.entities)

(***************************************************************************)
(* C10: get returns IDLE for an id never put; after put(id, s) get(id)     *)
(* returns s until the next put for that id; a put leaves every other id   *)
(* unchanged; no operation removes an entry.                               *)
(***************************************************************************)
C10_Store ==
    [][/\ DOMAIN conversation_states \subseteq DOMAIN conversation_states'
       /\ \A c \in ConversationIds :
             \/ \E r \in Slots :
                   /\ Writes(r) /\ reqs[r].conversation_id = c
                   /\ c \in DOMAIN conversation_states'
                   /\ conversation_states'[c] = reqs[r].next_state
             \/ /\ (c \in DOMAIN conversation_states') = (c \in DOMAIN conversation_states)
                /\ c \in DOMAIN conversation_states =>
                      conversation_states'[c] = conversation_states[c]
       /\ \A r \in Slots :
             Reads(r) =>
                reqs'[r].current_state =
                   IF reqs[r].conversation_id \in DOMAIN conversation_states
                   THEN conversation_states[reqs[r].conversation_id]
                   ELSE IDLE]_vars
C10_Witness ==
    /\ DOMAIN conversation_states = ConversationIds
    /\ conversation_states["c1"] = TRUSTING
    /\ conversation_states["c2"] = CONFUSED
    /\ delivered.conversation_id = "c2"

(***************************************************************************)
(* C11: a message whose only scam signals are one urgency keyword and one  *)
(* payment keyword ("You must pay tax now."), received while the           *)
(* conversation is in CONFUSED, advances the conversation to TRUSTING.     *)
(***************************************************************************)
OnlyUrgencyAndPayment(m) ==
    /\ CountIn(SCAM_KEYWORDS, str_lower(m)) = 0
    /\ CountIn(URGENCY_KEYWORDS, str_lower(m)) = 1
    /\ CountIn(PAYMENT_KEYWORDS, str_lower(m)) = 1
    /\ ~re_search_str(URL_PATTERN, m)
    /\ ~re_search_str(UPI_PATTERN, m)
    /\ ~re_search_str(BANK_ACCOUNT_PATTERN, m)
C11_PressureAdvances ==
    (/\ Processed
     /\ OnlyUrgencyAndPayment(delivered.message)
     /\ delivered.stored_at_entry = CONFUSED)
    => /\ delivered.response.persona_state = TRUSTING
       /\ Stored(conversation_states, delivered.conversation_id) = TRUSTING

(***************************************************************************)
(* C12: a POST without an API key header is rejected with status 401 and   *)
(* is not processed: no persona state is read, computed or written for it. *)
(***************************************************************************)
C12_NoKeyRejected ==
    /\ \A r \in Slots :
          reqs[r].pc \notin {"idle", "scheduled"} => reqs[r].x_api_key # NoKey
    /\ (delivered.response.status # 0 /\ delivered.x_api_key = NoKey)
          => delivered.response.status = 401

(***************************************************************************)
(* C13: a POST with an API key different from the configured one is        *)
(* rejected with status 403 and leaves the conversation store unchanged;   *)
(* a POST with the correct key is processed and answered with status 200.  *)
(***************************************************************************)
WrongKey(key) == key # NoKey /\ key # API_KEY
C13_KeyCheck ==
    [][/\ \A r \in Slots :
             (reqs[r].pc = "scheduled" /\ reqs'[r].pc = "idle") =>
                 /\ WrongKey(delivered'.x_api_key)
                 /\ delivered'.response.status = 403
                 /\ conversation_states' = conversation_states
       /\ \A r \in Slots :
             (reqs[r].pc = "scheduled" /\ reqs'[r].pc \notin {"scheduled", "idle"}) =>
                 ~WrongKey(reqs'[r].x_api_key)
       /\ (delivered'.response.status # 0 /\ WrongKey(delivered'.x_api_key)) =>
             delivered'.response.status = 403
       /\ (delivered'.response.status # 0 /\ delivered'.x_api_key = API_KEY) =>
             delivered'.response.status = 200]_vars
C13_Witness ==
    /\ delivered.x_api_key = "wrong"
    /\ delivered.response.status = 403
    /\ delivered.stored_at_entry = CONFUSED
    /\ Stored(conversation_states, delivered.conversation_id) = CONFUSED

(***************************************************************************)
(* C14: one reply synthesis makes at most one request to the external      *)
(* generator: when that request fails there is no second request and the   *)
(* reply is the rule-based text of the state.                              *)
(***************************************************************************)
GeneratorRaised(gen) == gen.kind # "content" \/ gen.content.type # "str"
C14_SingleAttempt ==
    call.op = "generate_agent_reply" =>
        /\ call.attempts <= 1
        /\ GeneratorRaised(call.gen) =>
              /\ call.attempts = 1
              /\ call.result.value \in RuleBasedTexts(call.state, call.entities)
C14_Witness ==
    /\ call.op = "generate_agent_reply"
    /\ call.gen.kind = "api_error"
    /\ call.retry_gen = [kind |-> "content", content |-> Str(GeneratedText)]
    /\ call.state = TRUSTING
    /\ call.attempts = 1
    /\ call.result.value = TrustingReplies[2]

(***************************************************************************)
(* C15: on the rule-based path in EXTRACTING the reply follows a fixed     *)
(* priority: a captured UPI id gives the UPI prompt; otherwise a captured  *)
(* bank account gives the IFSC prompt; otherwise a captured link gives the *)
(* other-link prompt; otherwise it is one of the three generic prompts.    *)
(***************************************************************************)
C15_ExtractingPriority ==
    (/\ call.op = "generate_agent_reply"
     /\ call.state = EXTRACTING
     /\ GeneratorRaised(call.gen))
    => LET e == call.entities
           reply == call.result.value
       IN  /\ e.upi_ids # <<>> => reply = UpiReply
           /\ (e.upi_ids = <<>> /\ e.bank_accounts # <<>>) => reply = BankReply
           /\ (e.upi_ids = <<>> /\ e.bank_accounts = <<>> /\ e.phishing_links # <<>>)
                 => reply = LinkReply
           /\ (e.upi_ids = <<>> /\ e.bank_accounts = <<>> /\ e.phishing_links = <<>>)
                 => reply \in Range(ExtractingReplies)
C15_Witness ==
    /\ call.op = "generate_agent_reply"
    /\ call.state = EXTRACTING
    /\ call.gen.kind = "no_client"
    /\ call.entities.upi_ids # <<>>
    /\ call.entities.bank_accounts # <<>>
    /\ call.entities.phishing_links # <<>>
    /\ call.result.value = UpiReply

(***************************************************************************)
(* C16: the next state depends only on the current state, the verdict and  *)
(* whether a UPI id, a bank account or a link was extracted: the message   *)
(* text and the IFSC codes do not matter, and a scam message carrying only *)
(* IFSC codes leaves TRUSTING at TRUSTING.                                 *)
(***************************************************************************)
HasPaymentEntity(e) ==
    e.upi_ids # <<>> \/ e.bank_accounts # <<>> \/ e.phishing_links # <<>>
C16_TransitionInputs ==
    call.op = "determine_next_state" =>
        /\ \A m \in ApiMessages, e \in EntitySets :
              HasPaymentEntity(e) = HasPaymentEntity(call.entities) =>
                  determine_next_state(call.current_state, m, e, call.is_scam)
                      = call.result
        /\ (/\ call.current_state = TRUSTING
            /\ call.is_scam
            /\ call.entities.ifsc_codes # <<>>
            /\ ~HasPaymentEntity(call.entities)) => call.result = TRUSTING
C16_Witness ==
    /\ call.op = "determine_next_state"
    /\ call.current_state = TRUSTING
    /\ call.is_scam
    /\ call.entities.ifsc_codes # <<>>
    /\ ~HasPaymentEntity(call.entities)
    /\ call.result = TRUSTING

(***************************************************************************)
(* C17: starting from the empty store, after any sequence of requests      *)
(* every stored state and every state handed to generate_agent_reply is    *)
(* one of the four persona states, so the final apology reply of           *)
(* generate_agent_reply is never produced.                                 *)
(***************************************************************************)
C17_KnownStates ==
    /\ \A c \in DOMAIN conversation_states : conversation_states[c] \in PersonaState
    /\ \A r \in Slots :
          /\ reqs[r].pc \in {"generate_agent_reply", "update_persona_state", "return"}
                => reqs[r].next_state \in PersonaState
          /\ reqs[r].pc \in {"update_persona_state", "return"}
                => reqs[r].agent_reply # ApologyReply
    /\ delivered.response.status = 200
          => delivered.response.agent_reply # ApologyReply
C17_Witness ==
    /\ DOMAIN conversation_states = ConversationIds
    /\ conversation_states["c1"] = EXTRACTING
    /\ \E r \in Slots :
          /\ reqs[r].pc = "update_persona_state"
          /\ reqs[r].conversation_id = "c1"
          /\ reqs[r].next_state = EXTRACTING
          /\ reqs[r].agent_reply = UpiReply

(***************************************************************************)
(* C18: the confidence of detect_scam is min(1.0, K + U + P + L + H + B):  *)
(* K is 0 without a scam keyword and 0.3 + min(0.1 * count, 0.5) with      *)
(* count >= 1 of them, U = 0.2 for an urgency keyword, P = 0.2 for a       *)
(* payment keyword, L = 0.2 for a link, H = 0.3 for a UPI id, B = 0.3 for  *)
(* a 9-to-18-digit number; is_scam says whether the sum exceeds 0.4.       *)
(* Scores are in hundredths.                                               *)
(***************************************************************************)
Term(present, weight) == IF present THEN weight ELSE 0
ScoreSum(m) ==
    LET low == str_lower(m)
        count == Cardinality({w \in Range(SCAM_KEYWORDS) : str_contains(w, low)})
        K == IF count = 0 THEN 0 ELSE 30 + Min(10 * count, 50)
        U == Term(\E w \in Range(URGENCY_KEYWORDS) : str_contains(w, low), 20)
        P == Term(\E w \in Range(PAYMENT_KEYWORDS) : str_contains(w, low), 20)
        L == Term(re_search_str(URL_PATTERN, m), 20)
        H == Term(re_search_str(UPI_PATTERN, m), 30)
        B == Term(re_search_str(BANK_ACCOUNT_PATTERN, m), 30)
    IN  K + U + P + L + H + B
C18_Score ==
    (call.op = "detect_scam" /\ ~call.result.raised) =>
        /\ call.result.value[2] = Min(100, ScoreSum(call.message.value))
        /\ call.result.value[1] = (ScoreSum(call.message.value) > 40)
C18_Witness ==
    /\ call.op = "detect_scam"
    /\ call.message = Str(VerifyLink)
    /\ call.result = Return(<<TRUE, 90>>)

(***************************************************************************)
(* C19: for a POST processed without a fault, the reply is synthesized for *)
(* the newly computed next state and not for the state read from the       *)
(* store, the store is written only after the reply has been produced, and *)
(* the persona_state of the response is the state stored for the           *)
(* conversation when the request completes.                                *)
(***************************************************************************)
AllRuleBasedTexts == UNION {RuleBasedTexts(s, NoEntities) : s \in AnyState}
Replies(r) == reqs[r].pc = "generate_agent_reply" /\ reqs'[r].pc = "update_persona_state"
Returns(r) == reqs[r].pc = "return" /\ reqs'[r].pc = "idle"
C19_ReplyThenStore ==
    [][/\ \A r \in Slots :
             /\ Replies(r) =>
                   /\ reqs'[r].agent_reply \in AllRuleBasedTexts =>
                         reqs'[r].agent_reply \in
                             RuleBasedTexts(reqs[r].next_state, reqs[r].entities)
                   /\ conversation_states' = conversation_states
                   /\ Stored(conversation_states, reqs[r].conversation_id)
                         = reqs[r].current_state
             /\ Writes(r) =>
                   /\ reqs'[r].agent_reply = reqs[r].agent_reply
                   /\ Stored(conversation_states', reqs[r].conversation_id)
                         = reqs[r].next_state
             /\ Returns(r) =>
                   /\ delivered'.response.agent_reply = reqs[r].agent_reply
                   /\ delivered'.response.persona_state = reqs[r].next_state
                   /\ delivered'.response.persona_state
                         = Stored(conversation_states', reqs[r].conversation_id)
       /\ conversation_states' # conversation_states => \E r \in Slots : Writes(r)
       /\ Processed' =>
             delivered'.response.persona_state
                 = Stored(conversation_states', delivered'.conversation_id)]_vars
C19_Witness ==
    /\ Processed
    /\ delivered.stored_at_entry = CONFUSED
    /\ delivered.response.persona_state = TRUSTING
    /\ delivered.response.agent_reply = TrustingReplies[1]
    /\ Stored(conversation_states, delivered.conversation_id) = TRUSTING

(***************************************************************************)
(* C20: when a POST ends in the safe response because detect_scam,         *)
(* extract_entities, determine_next_state or generate_agent_reply raised,  *)
(* the conversation store is exactly what it was before the request: the   *)
(* conversation keeps its previous state, which may differ from the idle   *)
(* reported in the safe response.                                          *)
(***************************************************************************)
FaultSteps ==
    {"detect_scam", "extract_entities", "determine_next_state", "generate_agent_reply"}
Faulted(r) ==
    /\ reqs[r].pc \in FaultSteps
    /\ reqs'[r].pc = "idle"
    /\ delivered'.fault \in FaultSteps
C20_FaultKeepsStore ==
    [][/\ \A r \in Slots :
             Faulted(r) =>
                 /\ conversation_states' = conversation_states
                 /\ delivered'.response.persona_state = IDLE
                 /\ delivered'.fault = reqs[r].pc
       /\ delivered'.fault \in FaultSteps =>
             Stored(conversation_states', delivered'.conversation_id)
                 = delivered'.stored_at_entry]_vars
C20_Witness ==
    /\ delivered.fault = "generate_agent_reply"
    /\ delivered.stored_at_entry = TRUSTING
    /\ delivered.response.persona_state = IDLE
    /\ Stored(conversation_states, delivered.conversation_id) = TRUSTING

====
